---- MODULE Spec2Model ----
(***************************************************************************)
(* A model of trenitalia-open-api (src/src/functions.ts): the fetchers of  *)
(* the ViaggiaTreno service and the train aggregator getAllTrains with its *)
(* concurrent per-segment requests.                                        *)
(*                                                                         *)
(* JavaScript values are modelled as follows.  An object is a record; a    *)
(* property the object lacks is a field the record lacks (reading it gives *)
(* undefined).  null is the record NullEl, reading a property of which     *)
(* throws.  A response body that is an array is [js |-> "array", items],   *)
(* any other body is NotArray, calling .map of which throws.  A string the *)
(* code parses is a sequence of one-character strings.  The result of a    *)
(* function that may throw is Ok(v) or Throw(e).                           *)
(***************************************************************************)
EXTENDS Integers, Sequences, FiniteSets, TLC

VARIABLES
    pc,         \* getAllTrains: "start", "awaitSegments", "awaitAll", "returned"
    segResp,    \* getAllTrains: the response to the segment-list request
    segments,   \* getAllTrains: const segments (line 84)
    infoTratte, \* getAllTrains: the per-segment requests issued (line 86), in order
    settled,    \* getAllTrains: per request, Pending or the response it settled with
    done,       \* getAllTrains: the indices of the requests in the order they settled
    ret,        \* getAllTrains: the value returned to the caller, NoValue before
    data,       \* pipeline: the flattened raw records (line 90)
    out,        \* pipeline: the result of filter, map and dedup over data
    fn,         \* fetchers: the function called, "none" before the call
    args,       \* fetchers: its arguments
    step,       \* fetchers: "idle", "lookup", "request", "returned"
    lookup,     \* fetchers: the response to the autocomplete request
    stationId,  \* fetchers: const stationId (lines 195, 236), as the URL shows it
    resp,       \* fetchers: the response to the function's own request
    result      \* fetchers: the value returned to the caller

vars == <<pc, segResp, segments, infoTratte, settled, done, ret, data, out,
          fn, args, step, lookup, stationId, resp, result>>

trainVars == <<pc, segResp, segments, infoTratte, settled, done, ret>>
pipeVars  == <<data, out>>
fetchVars == <<fn, args, step, lookup, stationId, resp, result>>

(***************************************************************************)
(* Bounds of the model.                                                    *)
(***************************************************************************)
MaxSegs == 2      \* records in the upstream segment list (getAllTrains)
MaxTrains == 2    \* raw train records over all per-segment responses
MaxTratte == 2    \* entries of one per-segment response body
MaxData == 3      \* raw records fed to the pipeline
MaxList == 3      \* records in the upstream segment list (getAllSegments)
MaxEls == 2       \* elements of a station or stop-canvas body
MaxStops == 3     \* stops of an itinerary (getTrainInfo)
MaxLines == 2     \* lines of the autocomplete text

(***************************************************************************)
(* Generic helpers.                                                        *)
(***************************************************************************)
SeqUpTo(S, n) == UNION {[1..k -> S] : k \in 0..n}

Ok(v) == [tag |-> "ok", value |-> v]
Throw(e) == [tag |-> "throw", err |-> e]

NullEl == [js |-> "null"]
NotArray == [js |-> "other"]
Arr(items) == [js |-> "array", items |-> items]

Has(el, f) == f \in DOMAIN el

\* A template literal's `${el.f}`: "undefined" for a missing property.
Interp(el, f) == IF Has(el, f) THEN ToString(el[f]) ELSE "undefined"

\* The object literal {k: el[src[k]], ...}: a property read as undefined is
\* left out of the record.
Pick(el, src) == [k \in {k \in DOMAIN src : Has(el, src[k])} |-> el[src[k]]]

(***************************************************************************)
(* new Map(entries) and Array.from(map.values()): a key keeps the position *)
(* of its first insertion and the value of its last.                       *)
(***************************************************************************)
KeyIndex(m, k) ==
    LET hits == {i \in 1..Len(m) : m[i].key = k}
    IN  IF hits = {} THEN 0 ELSE CHOOSE i \in hits : TRUE

MapSet(m, k, v) ==
    LET i == KeyIndex(m, k)
    IN  IF i = 0 THEN Append(m, [key |-> k, val |-> v])
        ELSE [m EXCEPT ![i] = [key |-> k, val |-> v]]

RECURSIVE NewMap(_)
NewMap(entries) ==
    IF entries = <<>> THEN <<>>
    ELSE LET n == Len(entries)
         IN  MapSet(NewMap(SubSeq(entries, 1, n - 1)), entries[n].key, entries[n].val)

MapValues(m) == [i \in 1..Len(m) |-> m[i].val]

RECURSIVE Flat(_)
Flat(ss) == IF ss = <<>> THEN <<>> ELSE Head(ss) \o Flat(Tail(ss))

(***************************************************************************)
(* Strings the code parses, as sequences of one-character strings.         *)
(***************************************************************************)
RECURSIVE StrOf(_)
StrOf(cs) == IF cs = <<>> THEN "" ELSE Head(cs) \o StrOf(Tail(cs))

\* String.prototype.split(sep) for a non-empty separator.
RECURSIVE SplitOn(_, _)
SplitOn(cs, sep) ==
    LET n == Len(sep)
        at == {i \in 1..(Len(cs) - n + 1) : SubSeq(cs, i, i + n - 1) = sep}
    IN  IF at = {} THEN <<cs>>
        ELSE LET i == CHOOSE j \in at : \A k \in at : j <= k
             IN  <<SubSeq(cs, 1, i - 1)>> \o SplitOn(SubSeq(cs, i + n, Len(cs)), sep)

Split(cs, c) == SplitOn(cs, <<c>>)

\* String.prototype.trim().
RECURSIVE Trim(_)
Trim(cs) ==
    IF cs = <<>> THEN cs
    ELSE IF Head(cs) = " " THEN Trim(Tail(cs))
    ELSE IF cs[Len(cs)] = " " THEN Trim(SubSeq(cs, 1, Len(cs) - 1))
    ELSE cs

DigitVal(c) ==
    CASE c = "0" -> 0 [] c = "1" -> 1 [] c = "2" -> 2 [] c = "3" -> 3 [] c = "4" -> 4
      [] c = "5" -> 5 [] c = "6" -> 6 [] c = "7" -> 7 [] c = "8" -> 8 [] c = "9" -> 9

\* Number(s) for a string of decimal digits (the empty string gives 0).
RECURSIVE Number(_)
Number(cs) ==
    IF cs = <<>> THEN 0
    ELSE 10 * Number(SubSeq(cs, 1, Len(cs) - 1)) + DigitVal(cs[Len(cs)])

(***************************************************************************)
(* Responses of the HTTP gateway (axios.get).  The promise rejects on a    *)
(* transport failure and on a status outside 2xx; it fulfils with the      *)
(* status and the body otherwise, so a fulfilled response may carry a      *)
(* status other than 200.                                                  *)
(***************************************************************************)
Rejected == [kind |-> "rejected"]
Fulfilled(status, body) == [kind |-> "fulfilled", status |-> status, data |-> body]
Statuses == {200, 203}

AxiosError == "AxiosError"
TypeError == "TypeError"

(***************************************************************************)
(* getAllSegments (lines 40-75).                                           *)
(***************************************************************************)
\* The upstream record of one segment.
SegmentRecord(ab, ba, occ) ==
    [nodoA |-> "S01700", nodoB |-> "S01701", trattaAB |-> ab, trattaBA |-> ba,
     latitudineA |-> 45, longitudineA |-> 9, latitudineB |-> 44, longitudineB |-> 11,
     occupata |-> occ]

SegmentIds == {1, 11}

SegmentRecords ==
    {SegmentRecord(ab, ba, occ) : ab \in SegmentIds, ba \in SegmentIds, occ \in BOOLEAN}

\* Line 52: the key of the unique collapse.
SegmentKeyNoSeparator(el) == Interp(el, "trattaAB") \o Interp(el, "trattaBA")
SegmentKey(el) == Interp(el, "trattaAB") \o "-" \o Interp(el, "trattaBA")

\* Line 47: the busy filter (a missing occupata is falsy).
Occupied(el) == Has(el, "occupata") /\ el.occupata

\* Lines 49-55.
UniqueLines(lines) ==
    MapValues(NewMap([i \in 1..Len(lines) |-> [key |-> SegmentKey(lines[i]), val |-> lines[i]]]))

\* Lines 45-55: busy filter, then unique collapse.
TrainLinesUniqueFirst(items, unique, busy) ==
    LET collapsed == IF unique THEN UniqueLines(items) ELSE items
    IN  IF busy THEN SelectSeq(collapsed, Occupied) ELSE collapsed
TrainLines(items, unique, busy) ==
    LET filtered == IF busy THEN SelectSeq(items, Occupied) ELSE items
    IN  IF unique THEN UniqueLines(filtered) ELSE filtered

\* Lines 57-67.
MapSegment(el) ==
    Pick(el, [stationIdA |-> "nodoA", stationIdB |-> "nodoB",
              segmentIdAB |-> "trattaAB", segmentIdBA |-> "trattaBA", busy |-> "occupata"])
      @@ [locationA |-> Pick(el, [lat |-> "latitudineA", lon |-> "longitudineA"]),
          locationB |-> Pick(el, [lat |-> "latitudineB", lon |-> "longitudineB"])]

\* Line 44 (and 15, 139, 159, 198, 239): the status test.
StatusAny(response) == TRUE
StatusOk(response) == response.status = 200

\* Lines 41-74: the body of getAllSegments for a settled request.  Reading a
\* property of a null element throws, as does .filter or .map of a body that
\* is no array; the catch returns [].
GetAllSegments(response, unique, busy) ==
    IF response.kind = "rejected" THEN <<>>
    ELSE IF ~StatusOk(response) THEN <<>>
    ELSE IF response.data.js # "array" THEN <<>>
    ELSE IF \E i \in 1..Len(response.data.items) : response.data.items[i] = NullEl THEN <<>>
    ELSE LET lines == TrainLines(response.data.items, unique, busy)
         IN  [i \in 1..Len(lines) |-> MapSegment(lines[i])]

(***************************************************************************)
(* getAllTrains (lines 82-128): the records of the upstream service.       *)
(***************************************************************************)
\* The upstream record of one train.  Train 11 is a train of the operator whose
\* records carry no category and a formatted number with a leading space
\* (line 102); train 1 is a regional train.  dur is the "HH:MM" duration, or
\* "missing" for a record without compDurata.
RawTrain(num, reg, arr, np, dur) ==
    LET base == [numeroTreno |-> num, regione |-> reg, arrivato |-> arr, nonPartito |-> np,
                 circolante |-> (~arr /\ ~np), ritardo |-> 0,
                 categoria |-> IF num = 11 THEN "" ELSE "REG",
                 compNumeroTreno |-> IF num = 11 THEN <<" ", "F", "R", " ", "1", "1">>
                                     ELSE <<"R", "E", "G", " ", "1">>]
    IN  IF dur = "missing" THEN base
        ELSE base @@ [compDurata |-> IF num = 11 THEN <<"0", "2", ":", "1", "5">>
                                     ELSE <<"0", "0", ":", "4", "5">>]

TrainNumbers == {1, 11}
RegionIds == {1, 11}

RawTrains ==
    {RawTrain(num, reg, arr, np, dur) :
        num \in TrainNumbers, reg \in RegionIds, arr \in BOOLEAN, np \in BOOLEAN,
        dur \in {"present", "missing"}}

\* Line 91: the filter.
KeptOnlyTravelling(el) == ~el.arrivato /\ ~el.nonPartito
Kept(el) == ~el.arrivato \/ ~el.nonPartito

\* Lines 92-93.
DurataMin(el) ==
    LET parts == Split(el.compDurata, ":")
    IN  Number(parts[1]) * 60 + Number(parts[2])

\* Line 102.
TrainCategory(el) ==
    IF el.categoria # "" THEN el.categoria
    ELSE StrOf(Split(Trim(el.compNumeroTreno), " ")[1])

\* Lines 95-96: the two flags of the Train.
TrainFlags(el) == [departed |-> ~el.nonPartito, arrived |-> el.arrivato]

\* Lines 92-113: the Train of a raw record that has compDurata.
NewData(el) ==
    TrainFlags(el)
      @@ [trainCategory |-> TrainCategory(el), travelDuration |-> DurataMin(el)]
      @@ Pick(el, [travelling |-> "circolante", regionId |-> "regione",
                   trainNumber |-> "numeroTreno", delay |-> "ritardo"])

\* Line 91: data.filter(...).
Filtered(flat) == SelectSeq(flat, Kept)

\* Lines 91-114: .map(...) over the kept records; compDurata.split throws on a
\* kept record without compDurata.
MapTrains(kept) ==
    IF \E i \in 1..Len(kept) : ~Has(kept[i], "compDurata") THEN Throw(TypeError)
    ELSE Ok([i \in 1..Len(kept) |-> NewData(kept[i])])

\* Line 119: the key of the deduplication.
TrainKeyNumberOnly(t) == Interp(t, "trainNumber")
TrainKey(t) == Interp(t, "trainNumber") \o "-" \o Interp(t, "regionId")

\* Lines 117-121.
NoDuplicates(allTrains) ==
    MapValues(NewMap([i \in 1..Len(allTrains) |->
                        [key |-> TrainKey(allTrains[i]), val |-> allTrains[i]]]))

\* Lines 88-90: el.data.map(tr => tr.treni).flat() of every response, flattened.
\* el.data.map throws when el.data is undefined or no array.
FlatData(response) ==
    IF \E i \in 1..Len(response) :
          ~Has(response[i], "data") \/ response[i].data.js # "array"
    THEN Throw(TypeError)
    ELSE Ok(Flat([i \in 1..Len(response) |->
                    Flat([j \in 1..Len(response[i].data.items) |->
                            response[i].data.items[j].treni])]))

Pending == [kind |-> "pending"]
NoResponse == [kind |-> "none"]

IsFulfilled(r) == r.kind = "fulfilled"

\* Line 87: Promise.all(infoTratte).  It rejects as soon as one promise has
\* rejected, fulfils with the values in the order of the promises once all
\* have fulfilled, and is pending otherwise.  order is the order in which the
\* promises settled.
PromiseAllEager(values, order) ==
    IF \E i \in 1..Len(values) : values[i].kind = "rejected"
    THEN [state |-> "rejected", reason |-> AxiosError]
    ELSE [state |-> "fulfilled", value |-> SelectSeq(values, IsFulfilled)]
PromiseAllInCompletionOrder(values, order) ==
    IF \E i \in 1..Len(values) : values[i].kind = "rejected"
    THEN [state |-> "rejected", reason |-> AxiosError]
    ELSE IF \A i \in 1..Len(values) : IsFulfilled(values[i])
    THEN [state |-> "fulfilled", value |-> [k \in 1..Len(order) |-> values[order[k]]]]
    ELSE [state |-> "pending"]
PromiseAll(values, order) ==
    IF \E i \in 1..Len(values) : values[i].kind = "rejected"
    THEN [state |-> "rejected", reason |-> AxiosError]
    ELSE IF \A i \in 1..Len(values) : IsFulfilled(values[i])
    THEN [state |-> "fulfilled", value |-> values]
    ELSE [state |-> "pending"]

NoValue == [tag |-> "none"]
TrainsValue(ts) == [tag |-> "trains", value |-> ts]
ErrorValue(e) == [tag |-> "error", err |-> e]

\* Lines 124-127: the catch returns the error.
CatchReturnsEmpty(err) == TrainsValue(<<>>)
Catch(err) == ErrorValue(err)

\* Lines 91-127 for the flattened records: the value returned.
FromData(flat) ==
    LET allTrains == MapTrains(Filtered(flat))
    IN  IF allTrains.tag = "throw" THEN Catch(allTrains.err)
        ELSE TrainsValue(NoDuplicates(allTrains.value))

\* Lines 87-127 once Promise.all has fulfilled with response: the value returned.
Aggregate(response) ==
    LET flat == FlatData(response)
    IN  IF flat.tag = "throw" THEN Catch(flat.err) ELSE FromData(flat.value)

\* Line 86: the request of one segment.
DetailUrl(el) ==
    "dettagliTratta/0/" \o Interp(el, "segmentIdAB") \o "/" \o Interp(el, "segmentIdBA")

(***************************************************************************)
(* The upstream answers getAllTrains may meet.                             *)
(***************************************************************************)
\* Two physical tracks, one of them listed twice with differing payloads.
TrainSegmentRecords ==
    {r \in SegmentRecords : r.trattaAB # r.trattaBA /\ (r.trattaAB = 1 \/ r.occupata)}

SegmentListResponses ==
    {Rejected} \cup {Fulfilled(st, NotArray) : st \in Statuses}
      \cup {Fulfilled(st, Arr(l)) : st \in Statuses, l \in SeqUpTo(TrainSegmentRecords, MaxSegs)}

\* The raw records of the per-segment responses: train 1 in either region, with
\* a second record of region 1 that differs in nonPartito.
FanOutTrains ==
    {t \in RawTrains : t.numeroTreno = 1 /\ ~t.arrivato /\ Has(t, "compDurata")
                         /\ (t.regione = 1 \/ ~t.nonPartito)}

TotalTreni(body) == Len(Flat([j \in 1..Len(body) |-> body[j].treni]))

DetailBodies ==
    {b \in SeqUpTo({[treni |-> ts] : ts \in SeqUpTo(FanOutTrains, MaxTrains)}, MaxTratte) :
        TotalTreni(b) <= MaxTrains}

\* The fulfilled responses with at most n raw records.  getAllTrains never reads
\* the status of a per-segment response, so one status stands for all.
DetailResponsesUpTo ==
    [n \in 0..MaxTrains |->
        {Fulfilled(200, NotArray)}
          \cup {Fulfilled(200, Arr(b)) : b \in {b \in DetailBodies : TotalTreni(b) <= n}}]

UsedTreni(values) ==
    Len(Flat([i \in 1..Len(values) |->
                IF IsFulfilled(values[i]) /\ values[i].data.js = "array"
                THEN Flat([j \in 1..Len(values[i].data.items) |-> values[i].data.items[j].treni])
                ELSE <<>>]))

DetailResponses(values) == DetailResponsesUpTo[MaxTrains - UsedTreni(values)]

(***************************************************************************)
(* getAllTrains as a process: the call, the segment list settling, and the *)
(* per-segment requests settling in any order (or never).  Each action is  *)
(* one run of the event loop: the settling of a request and everything the *)
(* code does in reaction before it next waits.                             *)
(***************************************************************************)
Idle ==
    /\ pc = "start" /\ segResp = NoResponse /\ segments = <<>> /\ infoTratte = <<>>
    /\ settled = <<>> /\ done = <<>> /\ ret = NoValue

PipeIdle == data = <<>> /\ out = NoValue

FetchIdle ==
    /\ fn = "none" /\ args = NoValue /\ step = "idle" /\ lookup = NoResponse
    /\ stationId = "" /\ resp = NoResponse /\ result = NoValue

Init == Idle /\ PipeIdle /\ FetchIdle

\* Line 84: getAllSegments(true) is called and its request is in flight.
CallGetAllTrains ==
    /\ pc = "start"
    /\ pc' = "awaitSegments"
    /\ UNCHANGED <<segResp, segments, infoTratte, settled, done, ret, pipeVars, fetchVars>>

\* Lines 84-87: the segment-list request settles; getAllSegments returns and
\* every per-segment request is issued.  With no segment Promise.all fulfils
\* at once and the call returns.
SegmentListSettles ==
    /\ pc = "awaitSegments"
    /\ \E r \in SegmentListResponses :
          LET segs == GetAllSegments(r, TRUE, FALSE)
              all == PromiseAll(<<>>, <<>>)
          IN  /\ segResp' = r
              /\ segments' = segs
              /\ infoTratte' = [i \in 1..Len(segs) |-> DetailUrl(segs[i])]
              /\ settled' = [i \in 1..Len(segs) |-> Pending]
              /\ IF segs = <<>>
                 THEN pc' = "returned" /\ ret' = Aggregate(all.value)
                 ELSE pc' = "awaitAll" /\ ret' = ret
    /\ UNCHANGED <<done, pipeVars, fetchVars>>

\* Lines 86-87, 124-127: a request rejects while the call waits; Promise.all
\* rejects and the catch returns.
RequestRejects(i) ==
    /\ pc = "awaitAll"
    /\ settled[i] = Pending
    /\ settled' = [settled EXCEPT ![i] = Rejected]
    /\ done' = Append(done, i)
    /\ LET all == PromiseAll(settled', done')
       IN  /\ all.state = "rejected"
           /\ ret' = Catch(all.reason)
    /\ pc' = "returned"
    /\ UNCHANGED <<segResp, segments, infoTratte, pipeVars, fetchVars>>

\* Line 86: a request fulfils while the call waits and Promise.all stays pending.
RequestFulfils(i) ==
    /\ pc = "awaitAll"
    /\ settled[i] = Pending
    /\ \E r \in DetailResponses(settled) :
          /\ settled' = [settled EXCEPT ![i] = r]
          /\ done' = Append(done, i)
    /\ PromiseAll(settled', done').state = "pending"
    /\ UNCHANGED <<pc, segResp, segments, infoTratte, ret, pipeVars, fetchVars>>

\* Lines 86-123: a request fulfils and Promise.all fulfils with it; the
\* callback and the deduplication run and the call returns.
JoinFulfils(i) ==
    /\ pc = "awaitAll"
    /\ settled[i] = Pending
    /\ \E r \in DetailResponses(settled) :
          /\ settled' = [settled EXCEPT ![i] = r]
          /\ done' = Append(done, i)
    /\ LET all == PromiseAll(settled', done')
       IN  /\ all.state = "fulfilled"
           /\ ret' = Aggregate(all.value)
    /\ pc' = "returned"
    /\ UNCHANGED <<segResp, segments, infoTratte, pipeVars, fetchVars>>

\* A request still in flight settles after the call has returned: nothing
\* reads it.
LateSettle(i) ==
    /\ pc = "returned"
    /\ settled[i] = Pending
    /\ \E r \in {Rejected} \cup DetailResponses(settled) :
          settled' = [settled EXCEPT ![i] = r]
    /\ done' = Append(done, i)
    /\ UNCHANGED <<pc, segResp, segments, infoTratte, ret, pipeVars, fetchVars>>

NextTrains ==
    \/ CallGetAllTrains
    \/ SegmentListSettles
    \/ \E i \in 1..Len(settled) : RequestRejects(i)
    \/ \E i \in 1..Len(settled) : RequestFulfils(i)
    \/ \E i \in 1..Len(settled) : JoinFulfils(i)
    \/ \E i \in 1..Len(settled) : LateSettle(i)

SpecTrains == Init /\ [][NextTrains]_vars

(***************************************************************************)
(* The callback of getAllTrains on its own (lines 91-123): the flattened   *)
(* records are drawn from every combination of number, region and flags.   *)
(***************************************************************************)
\* A kept record without compDurata makes the callback throw whatever its key:
\* one key carries that case.
PipelineTrains ==
    {t \in RawTrains : Has(t, "compDurata") \/ (t.numeroTreno = 11 /\ t.regione = 11)}

InitPipeline ==
    /\ Idle /\ FetchIdle
    /\ data \in SeqUpTo(PipelineTrains, MaxData)
    /\ out = NoValue

\* Lines 91-127: filter, map, deduplicate, return.
RunPipeline ==
    /\ out = NoValue
    /\ out' = [tag |-> "done", kept |-> Filtered(data),
               allTrains |-> MapTrains(Filtered(data)), ret |-> FromData(data)]
    /\ UNCHANGED <<data, trainVars, fetchVars>>

NextPipeline == RunPipeline

SpecPipeline == InitPipeline /\ [][NextPipeline]_vars

(***************************************************************************)
(* getAllStations (lines 11-31).                                           *)
(***************************************************************************)
StationRecord ==
    [codStazione |-> "S01700", localita |-> [nomeLungo |-> "MILANO CENTRALE"],
     nomeCitta |-> "MILANO", lat |-> 45, lon |-> 9]

\* An element of the station list: a station, null, an object without
\* localita, an object without codStazione.
StationEls ==
    {StationRecord, NullEl,
     [f \in DOMAIN StationRecord \ {"localita"} |-> StationRecord[f]],
     [f \in DOMAIN StationRecord \ {"codStazione"} |-> StationRecord[f]]}

\* Lines 17-22: el.localita.nomeLungo throws when el.localita is undefined.
MapStationThrows(el) == el = NullEl \/ ~Has(el, "localita")
MapStation(el) ==
    Pick(el, [stationId |-> "codStazione", city |-> "nomeCitta"])
      @@ Pick(el.localita, [name |-> "nomeLungo"])
      @@ [location |-> Pick(el, [lat |-> "lat", lon |-> "lon"])]

ArrayValue(xs) == [tag |-> "value", value |-> xs]

\* Lines 12-30.
GetAllStations(response) ==
    IF response.kind = "rejected" THEN ArrayValue(<<>>)
    ELSE IF ~StatusOk(response) THEN ArrayValue(<<>>)
    ELSE IF response.data.js # "array" THEN ArrayValue(<<>>)
    ELSE IF \E i \in 1..Len(response.data.items) : MapStationThrows(response.data.items[i])
    THEN ArrayValue(<<>>)
    ELSE ArrayValue([i \in 1..Len(response.data.items) |-> MapStation(response.data.items[i])])

(***************************************************************************)
(* getTrainAutocomplete (lines 156-182).                                   *)
(***************************************************************************)
Text(cs) == [js |-> "string", chars |-> cs]

\* The string thrown at line 176.
CodeNot200 == <<"c", "o", "d", "e", " ", "n", "o", "t", " ", "2", "0", "0">>

\* Lines of the autocomplete text: two matches of train 39 (from AN, station
\* S07, and from BO, station S05), an empty line, a line without '|', and a
\* line whose code has no '-'.
AutocompleteLines ==
    {<<"3", "9", " ", "-", " ", "A", "N", " ", "-", " ", "0", "3", "|",
       "3", "9", "-", "S", "0", "7", "-", "1", "7">>,
     <<"3", "9", " ", "-", " ", "B", "O", " ", "-", " ", "0", "3", "|",
       "3", "9", "-", "S", "0", "5", "-", "1", "7">>,
     <<>>,
     <<"o", "o", "p", "s">>,
     <<"3", "9", " ", "-", " ", "A", "N", "|", "3", "9">>}

RECURSIVE JoinLines(_)
JoinLines(ls) ==
    IF ls = <<>> THEN <<>>
    ELSE IF Len(ls) = 1 THEN ls[1]
    ELSE ls[1] \o <<"\n">> \o JoinLines(Tail(ls))

NonEmpty(cs) == cs # <<>>

\* Lines 162-168 for one line: text[1].split throws when the line has no '|'.
MatchThrows(el) == Len(SplitOn(el, <<"|">>)) < 2
Match(el) ==
    LET text == SplitOn(el, <<"|">>)
        label == SplitOn(text[1], <<" ", "-", " ">>)
        code == SplitOn(text[2], <<"-">>)
    IN  [trainNumber |-> StrOf(code[1])]
          @@ (IF Len(label) >= 2 THEN [stationA |-> StrOf(label[2])] ELSE <<>>)
          @@ (IF Len(code) >= 2 THEN [stationIdA |-> StrOf(code[2])] ELSE <<>>)

\* Lines 157-181: the array of matches, or what the catch returns: the error of
\* the rejected request, the TypeError of a failed parse, or the string thrown
\* for a status other than 200.
GetTrainAutocomplete(response) ==
    IF response.kind = "rejected" THEN [tag |-> "error", err |-> AxiosError]
    ELSE IF ~StatusOk(response) THEN [tag |-> "string", chars |-> CodeNot200]
    ELSE IF response.data.js # "string" THEN [tag |-> "error", err |-> TypeError]
    ELSE LET lines == SelectSeq(SplitOn(response.data.chars, <<"\n">>), NonEmpty)
         IN  IF \E i \in 1..Len(lines) : MatchThrows(lines[i])
             THEN [tag |-> "error", err |-> TypeError]
             ELSE ArrayValue([i \in 1..Len(lines) |-> Match(lines[i])])

\* Lines 195 and 236: (await getTrainAutocomplete(trainNumber))[segmentN].stationIdA,
\* as it is interpolated into the URL.  Indexing an Error object, or an array or
\* string past its end, gives undefined, reading stationIdA of which throws; a
\* character of a string has no stationIdA.
LookupStationId(found, segmentN) ==
    IF found.tag = "error" THEN Throw(TypeError)
    ELSE IF found.tag = "string"
    THEN IF segmentN < Len(found.chars) THEN Ok("undefined") ELSE Throw(TypeError)
    ELSE IF segmentN >= Len(found.value) THEN Throw(TypeError)
    ELSE Ok(IF Has(found.value[segmentN + 1], "stationIdA")
            THEN found.value[segmentN + 1].stationIdA ELSE "undefined")

(***************************************************************************)
(* getTrainStopsInfo (lines 193-224).                                      *)
(***************************************************************************)
Fermata ==
    [arrivo_teorico |-> 1000, arrivoReale |-> 1005, partenza_teorica |-> 1010,
     partenzaReale |-> 1012, ritardoArrivo |-> 5, ritardoPartenza |-> 2,
     binarioProgrammatoPartenzaDescrizione |-> "1", binarioProgrammatoArrivoDescrizione |-> "2",
     binarioEffettivoPartenzaDescrizione |-> "3", binarioEffettivoArrivoDescrizione |-> "4"]

CanvasStop(first) ==
    [id |-> "S07", stazione |-> "AN", first |-> first, last |-> ~first,
     stazioneCorrente |-> first, fermata |-> Fermata]

\* An element of the stop canvas: a first stop, a last stop, null, an object
\* without fermata, an object without id.
CanvasEls ==
    {CanvasStop(TRUE), CanvasStop(FALSE), NullEl,
     [f \in DOMAIN CanvasStop(TRUE) \ {"fermata"} |-> CanvasStop(TRUE)[f]],
     [f \in DOMAIN CanvasStop(TRUE) \ {"id"} |-> CanvasStop(TRUE)[f]]}

\* Lines 201-215: el.fermata.arrivo_teorico throws when el.fermata is undefined.
MapStopThrows(el) == el = NullEl \/ ~Has(el, "fermata")
MapStop(el) ==
    LET isFirst == Has(el, "first") /\ el.first
    IN  Pick(el, [stationId |-> "id", name |-> "stazione", isFirstStop |-> "first",
                  isLastStop |-> "last", isCurrentStop |-> "stazioneCorrente"])
          @@ Pick(el.fermata,
                  [expectedArrival |-> "arrivo_teorico", actualArrival |-> "arrivoReale",
                   expectedDeparture |-> "partenza_teorica", actualDeparture |-> "partenzaReale",
                   delayAtArrival |-> "ritardoArrivo", delayAtDeparture |-> "ritardoPartenza",
                   expectedPlatform |-> IF isFirst THEN "binarioProgrammatoPartenzaDescrizione"
                                        ELSE "binarioProgrammatoArrivoDescrizione",
                   actualPlatform |-> IF isFirst THEN "binarioEffettivoPartenzaDescrizione"
                                      ELSE "binarioEffettivoArrivoDescrizione"])

\* Lines 196-223 for the settled stop request.
GetTrainStopsInfo(response) ==
    IF response.kind = "rejected" THEN ArrayValue(<<>>)
    ELSE IF ~StatusOk(response) THEN ArrayValue(<<>>)
    ELSE IF response.data.js # "array" THEN ArrayValue(<<>>)
    ELSE IF \E i \in 1..Len(response.data.items) : MapStopThrows(response.data.items[i])
    THEN ArrayValue(<<>>)
    ELSE ArrayValue([i \in 1..Len(response.data.items) |-> MapStop(response.data.items[i])])

(***************************************************************************)
(* getTrainInfo (lines 234-278).                                           *)
(***************************************************************************)
\* Line 260: the values of actualFermataType the code compares with.
Sentinel == 1
NotReached == 0

\* The values of actualFermataType upstream: not reached, reached, suppressed.
Markers == {0, 1, 3}

\* The stop at position i of n with the given marker: the first stop has
\* tipoFermata "P", the last one "A"; a reached stop has its actual times.
InfoStop(marker, i, n) ==
    LET base == [stazione |-> "AN", id |-> "S07", actualFermataType |-> marker,
                 tipoFermata |-> IF i = 1 THEN "P" ELSE IF i = n THEN "A" ELSE "F",
                 ritardoArrivo |-> 5, ritardoPartenza |-> 2,
                 arrivo_teorico |-> 1000, partenza_teorica |-> 1010,
                 binarioProgrammatoPartenzaDescrizione |-> "1",
                 binarioProgrammatoArrivoDescrizione |-> "2",
                 binarioEffettivoPartenzaDescrizione |-> "3",
                 binarioEffettivoArrivoDescrizione |-> "4"]
    IN  IF marker = 1 THEN base @@ [arrivoReale |-> 1005, partenzaReale |-> 1012] ELSE base

InfoBody(markers) ==
    [js |-> "object", tipoTreno |-> "PG", fermateSoppresse |-> <<>>,
     oraUltimoRilevamento |-> 1005, stazioneUltimoRilevamento |-> "AN",
     idOrigine |-> "S07", idDestinazione |-> "S05", origine |-> "AN", destinazione |-> "BO",
     arrivato |-> FALSE,
     fermate |-> [i \in 1..Len(markers) |-> InfoStop(markers[i], i, Len(markers))]]

\* A body without the stop list.
NoFermate == [js |-> "object", tipoTreno |-> "PG"]

\* Line 260: st.actualFermataType === 1 && (el.fermate[index + 1].actualFermataType === 0
\* || !el.fermate[index + 1]).  The right operand is evaluated only for a stop
\* with the sentinel, and reads a property of el.fermate[index + 1] first.
IsCurrentStopThrows(fermate, i) ==
    fermate[i].actualFermataType = Sentinel /\ i + 1 > Len(fermate)
IsCurrentStop(fermate, i) ==
    /\ fermate[i].actualFermataType = Sentinel
    /\ fermate[i + 1].actualFermataType = NotReached

\* Lines 253-267.
MapInfoStop(fermate, i) ==
    LET st == fermate[i]
        isFirst == st.tipoFermata = "P"
    IN  [isFirstStop |-> isFirst, isLastStop |-> (st.tipoFermata = "A"),
         isCurrentStop |-> IsCurrentStop(fermate, i)]
          @@ Pick(st, [name |-> "stazione", stationId |-> "id",
                       expectedArrival |-> "arrivo_teorico", actualArrival |-> "arrivoReale",
                       expectedDeparture |-> "partenza_teorica",
                       actualDeparture |-> "partenzaReale",
                       expectedPlatform |-> IF isFirst THEN "binarioProgrammatoPartenzaDescrizione"
                                            ELSE "binarioProgrammatoArrivoDescrizione",
                       actualPlatform |-> IF isFirst THEN "binarioEffettivoPartenzaDescrizione"
                                          ELSE "binarioEffettivoArrivoDescrizione"])
          @@ (IF Has(st, "arrivoReale") THEN Pick(st, [delayAtArrival |-> "ritardoArrivo"])
              ELSE <<>>)
          @@ (IF Has(st, "partenzaReale") THEN Pick(st, [delayAtDeparture |-> "ritardoPartenza"])
              ELSE <<>>)

\* Lines 237-277 for the settled request: the itinerary, or what the catch
\* returns.
GetTrainInfo(response) ==
    IF response.kind = "rejected" THEN [tag |-> "error", err |-> AxiosError]
    ELSE IF ~StatusOk(response) THEN [tag |-> "error", err |-> "code not 200"]
    ELSE LET el == response.data
         IN  IF ~Has(el, "fermate") THEN [tag |-> "error", err |-> TypeError]
             ELSE IF \E i \in 1..Len(el.fermate) : IsCurrentStopThrows(el.fermate, i)
             THEN [tag |-> "error", err |-> TypeError]
             ELSE [tag |-> "value",
                   value |-> Pick(el, [trainType |-> "tipoTreno",
                                       suppressedStops |-> "fermateSoppresse",
                                       lastDetection |-> "oraUltimoRilevamento",
                                       lastDetectionStationName |-> "stazioneUltimoRilevamento",
                                       stationIdA |-> "idOrigine", stationIdB |-> "idDestinazione",
                                       nameA |-> "origine", nameB |-> "destinazione",
                                       hasArrived |-> "arrivato"])
                               @@ [stops |-> [i \in 1..Len(el.fermate) |->
                                                MapInfoStop(el.fermate, i)]]]

(***************************************************************************)
(* The upstream answers the fetchers may meet.                             *)
(***************************************************************************)
BodyResponses(bodies) ==
    {Rejected} \cup {Fulfilled(st, b) : st \in Statuses, b \in bodies \cup {NotArray}}

StationResponses == BodyResponses({Arr(l) : l \in SeqUpTo(StationEls, MaxEls)})

FullSegmentResponses ==
    BodyResponses({Arr(l) : l \in SeqUpTo(SegmentRecords \cup {NullEl, [js |-> "object"]}, MaxList)})

AutocompleteResponses ==
    BodyResponses({Text(JoinLines(ls)) : ls \in SeqUpTo(AutocompleteLines, MaxLines)})

CanvasResponses == BodyResponses({Arr(l) : l \in SeqUpTo(CanvasEls, MaxEls)})

InfoResponses ==
    {Rejected} \cup {Fulfilled(st, b) : st \in Statuses,
                       b \in {InfoBody(ms) : ms \in SeqUpTo(Markers, MaxStops)} \cup {NoFermate}}

SegmentNs == {0, 1}

(***************************************************************************)
(* The fetchers as processes: a call, then each request settling.          *)
(***************************************************************************)
CallGetAllStations ==
    /\ step = "idle"
    /\ fn' = "getAllStations" /\ step' = "request"
    /\ UNCHANGED <<args, lookup, stationId, resp, result, trainVars, pipeVars>>

\* Lines 13-30.
StationsSettle ==
    /\ fn = "getAllStations" /\ step = "request"
    /\ \E r \in StationResponses : resp' = r /\ result' = GetAllStations(r)
    /\ step' = "returned"
    /\ UNCHANGED <<fn, args, lookup, stationId, trainVars, pipeVars>>

CallGetAllSegments(unique, busy) ==
    /\ step = "idle"
    /\ fn' = "getAllSegments" /\ step' = "request"
    /\ args' = [unique |-> unique, busy |-> busy]
    /\ UNCHANGED <<lookup, stationId, resp, result, trainVars, pipeVars>>

\* Lines 42-74.
SegmentsSettle ==
    /\ fn = "getAllSegments" /\ step = "request"
    /\ \E r \in FullSegmentResponses :
          resp' = r /\ result' = ArrayValue(GetAllSegments(r, args.unique, args.busy))
    /\ step' = "returned"
    /\ UNCHANGED <<fn, args, lookup, stationId, trainVars, pipeVars>>

\* Lines 195 and 236 with stationIdA given: the function's request goes out.
CallWithStation(f, segmentN) ==
    /\ step = "idle"
    /\ fn' = f /\ step' = "request"
    /\ args' = [trainNumber |-> "39", stationIdA |-> "S07", segmentN |-> segmentN]
    /\ stationId' = "S07"
    /\ UNCHANGED <<lookup, resp, result, trainVars, pipeVars>>

\* Lines 195 and 236 without stationIdA: the autocomplete request goes out.
CallWithoutStation(f, segmentN) ==
    /\ step = "idle"
    /\ fn' = f /\ step' = "lookup"
    /\ args' = [trainNumber |-> "39", segmentN |-> segmentN]
    /\ UNCHANGED <<lookup, stationId, resp, result, trainVars, pipeVars>>

\* Lines 220-222 and 274-276: what the catch of the function returns.
CatchOf(f, err) == IF f = "getTrainStopsInfo" THEN ArrayValue(<<>>) ELSE [tag |-> "error", err |-> err]

\* Lines 195-196 and 236-237: the autocomplete request settles; the station
\* id is read from the match and the function's request goes out, or the read
\* throws and the catch returns.
LookupSettles ==
    /\ step = "lookup"
    /\ \E r \in AutocompleteResponses :
          LET id == LookupStationId(GetTrainAutocomplete(r), args.segmentN)
          IN  /\ lookup' = r
              /\ IF id.tag = "throw"
                 THEN step' = "returned" /\ result' = CatchOf(fn, id.err) /\ stationId' = stationId
                 ELSE step' = "request" /\ result' = result /\ stationId' = id.value
    /\ UNCHANGED <<fn, args, resp, trainVars, pipeVars>>

\* Lines 196-223.
StopsSettle ==
    /\ fn = "getTrainStopsInfo" /\ step = "request"
    /\ \E r \in CanvasResponses : resp' = r /\ result' = GetTrainStopsInfo(r)
    /\ step' = "returned"
    /\ UNCHANGED <<fn, args, lookup, stationId, trainVars, pipeVars>>

\* Lines 237-277.
InfoSettle ==
    /\ fn = "getTrainInfo" /\ step = "request"
    /\ \E r \in InfoResponses : resp' = r /\ result' = GetTrainInfo(r)
    /\ step' = "returned"
    /\ UNCHANGED <<fn, args, lookup, stationId, trainVars, pipeVars>>

NextFetchers ==
    \/ CallGetAllStations
    \/ StationsSettle
    \/ \E u, b \in BOOLEAN : CallGetAllSegments(u, b)
    \/ SegmentsSettle
    \/ \E f \in {"getTrainStopsInfo", "getTrainInfo"}, n \in SegmentNs : CallWithStation(f, n)
    \/ \E f \in {"getTrainStopsInfo", "getTrainInfo"}, n \in SegmentNs : CallWithoutStation(f, n)
    \/ LookupSettles
    \/ StopsSettle
    \/ InfoSettle

SpecFetchers == Init /\ [][NextFetchers]_vars

(***************************************************************************)
(* Properties of the callback (SpecPipeline).                              *)
(***************************************************************************)
PairOf(t) == <<t.trainNumber, t.regionId>>

NotArrivedAndDeparted(el) == ~(TrainFlags(el).arrived /\ TrainFlags(el).departed)
NotArrivedAndNotDeparted(el) == ~(TrainFlags(el).arrived /\ ~TrainFlags(el).departed)

C3_OnePerPair ==
    (out.tag = "done" /\ out.ret.tag = "trains") =>
        LET all == out.allTrains.value
            res == out.ret.value
        IN  /\ {PairOf(res[i]) : i \in 1..Len(res)} = {PairOf(all[i]) : i \in 1..Len(all)}
            /\ \A i, j \in 1..Len(res) : PairOf(res[i]) = PairOf(res[j]) => i = j
            /\ \A i \in 1..Len(res) :
                  \E j \in 1..Len(all) :
                      /\ res[i] = all[j]
                      /\ \A k \in (j + 1)..Len(all) : PairOf(all[k]) # PairOf(res[i])

\* Three records were deduplicated: two that share number and region and differ,
\* and one with the same number in another region.
C3_Witness ==
    /\ out.tag = "done" /\ out.ret.tag = "trains"
    /\ Len(out.ret.value) = 2
    /\ \E i, j, k \in 1..Len(out.allTrains.value) :
          LET all == out.allTrains.value
          IN  /\ i < j /\ PairOf(all[i]) = PairOf(all[j]) /\ all[i] # all[j]
              /\ all[k].trainNumber = all[i].trainNumber
              /\ all[k].regionId # all[i].regionId

(***************************************************************************)
(* Properties of getAllTrains as a process (SpecTrains).                   *)
(***************************************************************************)
SomeRejected == \E i \in 1..Len(settled) : settled[i] = Rejected
SomePending == \E i \in 1..Len(settled) : settled[i] = Pending
AllFulfilled == \A i \in 1..Len(settled) : IsFulfilled(settled[i])

\* C4: if a per-segment request fails, getAllTrains returns the error object
\* and never a sequence of trains built from the requests that succeeded.
C4_NoPartialResult == SomeRejected => ret.tag = "error"

\* One request failed, another one fulfilled with trains, and the call returned
\* the error.
C4_Witness ==
    /\ ret.tag = "error"
    /\ SomeRejected
    /\ \E i \in 1..Len(settled) :
          /\ IsFulfilled(settled[i]) /\ settled[i].data.js = "array"
          /\ TotalTreni(settled[i].data.items) > 0

\* The segment list the request of getAllSegments obtained.
SegmentListOk ==
    /\ segResp.kind = "fulfilled" /\ segResp.status = 200 /\ segResp.data.js = "array"
UpstreamKeys ==
    {<<segResp.data.items[i].trattaAB, segResp.data.items[i].trattaBA>> :
        i \in 1..Len(segResp.data.items)}

\* C7: getAllTrains issues exactly one per-segment request for each distinct
\* key (segmentIdAB, segmentIdBA) of the upstream segment list, busy or not, and
\* none before the segment-list request has completed.
C7_OneRequestPerKey ==
    /\ pc \in {"start", "awaitSegments"} => infoTratte = <<>>
    /\ (pc \in {"awaitAll", "returned"} /\ SegmentListOk) =>
          /\ Len(infoTratte) = Cardinality(UpstreamKeys)
          /\ {infoTratte[i] : i \in 1..Len(infoTratte)} =
                {"dettagliTratta/0/" \o ToString(k[1]) \o "/" \o ToString(k[2]) :
                    k \in UpstreamKeys}

\* One request was issued for a track the list names twice, once busy and once
\* not, and the list's last record is the non-busy one.
C7_Witness ==
    /\ pc = "awaitAll" /\ SegmentListOk
    /\ Len(segResp.data.items) = 2
    /\ Len(infoTratte) = 1
    /\ segResp.data.items[1].occupata /\ ~segResp.data.items[2].occupata

\* C8 as stated: while a per-segment request has not completed getAllTrains
\* has returned nothing, neither trains nor an error.
C8_StallAsStated == ret # NoValue => ~SomePending

\* C8 amended: while a per-segment request has not completed getAllTrains has
\* returned no train sequence; it has returned at all only if another request
\* has failed, and then the error object.
C8_StallAmended ==
    /\ ret.tag = "trains" => AllFulfilled
    /\ (ret # NoValue /\ SomePending) => (ret.tag = "error" /\ SomeRejected)

\* The call has returned the error while a request is still in flight.
C8_Witness == pc = "returned" /\ ret.tag = "error" /\ SomePending /\ SomeRejected

\* The filtered, normalized records in segment order, then record order.
RecordsInSegmentOrder ==
    LET raw == Flat([i \in 1..Len(settled) |->
                       Flat([j \in 1..Len(settled[i].data.items) |->
                               settled[i].data.items[j].treni])])
        kept == SelectSeq(raw, Kept)
    IN  [i \in 1..Len(kept) |-> NewData(kept[i])]

\* The positions that open a pair, and the k-th of them.
Openers(all) == {i \in 1..Len(all) : \A j \in 1..(i - 1) : PairOf(all[j]) # PairOf(all[i])}
Opener(all, k) ==
    CHOOSE i \in Openers(all) : Cardinality({j \in Openers(all) : j <= i}) = k
LastOf(all, pair) ==
    CHOOSE i \in 1..Len(all) :
        /\ PairOf(all[i]) = pair
        /\ \A j \in (i + 1)..Len(all) : PairOf(all[j]) # pair

\* C9: when every request succeeds, the sequence returned is fixed by the
\* segment list and the responses alone: the pairs in the order in which they
\* first occur in segment order, each with the last record in segment order,
\* whatever the order in which the requests completed.
C9_CompletionOrderFree ==
    (pc = "returned" /\ ret.tag = "trains") =>
        LET all == RecordsInSegmentOrder
        IN  /\ Len(ret.value) = Cardinality(Openers(all))
            /\ \A k \in 1..Len(ret.value) :
                  ret.value[k] = all[LastOf(all, PairOf(all[Opener(all, k)]))]

\* The second request completed first; both carried a record of the same pair,
\* and the two records differ.
C9_Witness ==
    /\ pc = "returned" /\ ret.tag = "trains"
    /\ done = <<2, 1>>
    /\ \E a \in 1..Len(settled[1].data.items), b \in 1..Len(settled[2].data.items) :
          \E x \in 1..Len(settled[1].data.items[a].treni),
             y \in 1..Len(settled[2].data.items[b].treni) :
              LET t == settled[1].data.items[a].treni[x]
                  u == settled[2].data.items[b].treni[y]
              IN  t.numeroTreno = u.numeroTreno /\ t.regione = u.regione /\ t # u

\* C10: when the segment-list request fails (transport failure or a status
\* other than 200), getAllTrains issues no per-segment request and returns an
\* empty train sequence, not an error object.
C10_SegmentFailureGivesEmpty ==
    (pc \in {"awaitAll", "returned"} /\ (segResp.kind = "rejected" \/ segResp.status # 200)) =>
        /\ infoTratte = <<>>
        /\ pc = "returned"
        /\ ret = TrainsValue(<<>>)

\* The segment-list request came back with status 203 and a list of segments.
C10_Witness ==
    /\ pc = "returned" /\ ret = TrainsValue(<<>>)
    /\ segResp.kind = "fulfilled" /\ segResp.status # 200
    /\ segResp.data.js = "array" /\ Len(segResp.data.items) > 0

(***************************************************************************)
(* Properties of the fetchers (SpecFetchers).                              *)
(***************************************************************************)
RespOk == resp.kind = "fulfilled" /\ resp.status = 200

\* C2 as stated: in the itinerary getTrainInfo returns, stop i is the current
\* stop exactly when its marker is the sentinel and the next stop does not
\* exist or has another marker; with the sentinel on the last stop the
\* itinerary is returned, not an error.
C2_CurrentStopAsStated ==
    (fn = "getTrainInfo" /\ step = "returned" /\ RespOk /\ Has(resp.data, "fermate")) =>
        LET fermate == resp.data.fermate
            n == Len(fermate)
        IN  /\ result.tag = "value"
            /\ Len(result.value.stops) = n
            /\ \A i \in 1..n :
                  result.value.stops[i].isCurrentStop =
                      (/\ fermate[i].actualFermataType = Sentinel
                       /\ (i = n \/ fermate[i + 1].actualFermataType # Sentinel))

\* The keys of upstream records and of the segments returned.
KeyOfRecord(el) == <<el.trattaAB, el.trattaBA>>
KeyOfSegment(sg) == <<sg.segmentIdAB, sg.segmentIdBA>>

WellFormedSegmentList ==
    /\ RespOk /\ resp.data.js = "array"
    /\ \A i \in 1..Len(resp.data.items) : resp.data.items[i] \in SegmentRecords

\* C6: getAllSegments(unique = true, busy = true) returns exactly one record,
\* with busy = true, for each key that has a busy record in the upstream list,
\* also when a non-busy record of the key comes later in the list; with
\* unique = true alone it returns exactly one record per key of the list.
C6_BusyThenUnique ==
    (fn = "getAllSegments" /\ step = "returned" /\ WellFormedSegmentList /\ args.unique) =>
        LET items == resp.data.items
            res == result.value
            wanted == {KeyOfRecord(items[i]) :
                          i \in {i \in 1..Len(items) : args.busy => items[i].occupata}}
        IN  /\ {KeyOfSegment(res[i]) : i \in 1..Len(res)} = wanted
            /\ Len(res) = Cardinality(wanted)
            /\ args.busy => \A i \in 1..Len(res) : res[i].busy

\* unique and busy were both asked for a list in which a busy record is followed
\* by a non-busy record of the same key and by a record of another key.
C6_Witness ==
    /\ fn = "getAllSegments" /\ step = "returned" /\ WellFormedSegmentList
    /\ args.unique /\ args.busy
    /\ Len(resp.data.items) = 3 /\ Len(result.value) = 1
    /\ resp.data.items[1].occupata /\ ~resp.data.items[2].occupata
    /\ KeyOfRecord(resp.data.items[1]) = KeyOfRecord(resp.data.items[2])
    /\ KeyOfRecord(resp.data.items[3]) # KeyOfRecord(resp.data.items[1])

\* The function's own request failed: transport failure, a status other than
\* 200, or a body that is no array, has a null element or lacks the nested
\* object the mapping reads.
RequestFailed ==
    /\ resp # NoResponse
    /\ \/ resp.kind = "rejected"
       \/ resp.status # 200
       \/ resp.data.js # "array"
       \/ \E i \in 1..Len(resp.data.items) :
             \/ resp.data.items[i] = NullEl
             \/ fn = "getAllStations" /\ ~Has(resp.data.items[i], "localita")
             \/ fn = "getTrainStopsInfo" /\ ~Has(resp.data.items[i], "fermata")

\* The autocomplete lookup failed, found nothing, or found fewer matches than
\* the index asks for.
LookupFailed ==
    /\ lookup # NoResponse
    /\ LET found == GetTrainAutocomplete(lookup)
       IN  found.tag # "value" \/ args.segmentN >= Len(found.value)

\* C5 as stated: getAllStations, getAllSegments and getTrainStopsInfo return an
\* empty sequence on every transport failure, status other than 200 or
\* malformed body, and getTrainStopsInfo also on a failed or empty lookup or a
\* match index past the end of the matches.
C5_EmptyOnFailureAsStated ==
    (/\ fn \in {"getAllStations", "getAllSegments", "getTrainStopsInfo"}
     /\ step = "returned"
     /\ RequestFailed \/ LookupFailed)
        => result = ArrayValue(<<>>)

====
